---- MODULE Spec2Model ----
(***************************************************************************)
(* Crash-game analytics engine (backend/api/game_stats.py), the data       *)
(* collector (backend/collector/spacexy_collector.py) and the distribution *)
(* endpoint of the API (backend/api/main.py).                              *)
(*                                                                         *)
(* Four specifications share the variables: Spec runs the calculator with  *)
(* the collector constructed and idle; CollectorSpec runs the collector's  *)
(* run / collect_with_playwright / stop; StoreSpec runs parse_ws_message,  *)
(* save_round and generate_test_data, each save_round being a coroutine    *)
(* that yields at its awaits; DistributionSpec runs get_distribution while *)
(* the collector commits rounds to the table it reads.                     *)
(*                                                                         *)
(* JSON values of WebSocket messages are tagged records ([num |-> x],      *)
(* [str |-> s], [dict |-> d], [list |-> l]); float('nan') is NaN,          *)
(* for which every comparison is false.                                    *)
(*                                                                         *)
(* Numbers.  Python floats are modelled as exact fixed-point integers:     *)
(*   - a multiplier (and every quantity derived from one: mean, median,    *)
(*     expected value, risk/reward) is an integer count of 1/Scale, i.e.   *)
(*     of 0.00001;                                                         *)
(*   - a percentage is an integer count of 1/PctScale percent (0.0001 %);  *)
(*   - round(x, d) is Round(num, den, unit): the exact quotient num/den    *)
(*     rounded half-to-even to a multiple of `unit`.                       *)
(* IEEE doubles differ from this exact arithmetic only where a value sits   *)
(* exactly on a rounding tie or on a compared constant: there the double's *)
(* representation error decides (e.g. ev > 0.9 for an ev of exactly 0.9).  *)
(* No such tie on ev lies within the inputs used here (for the default     *)
(* targets it needs a sequence whose length is a multiple of 25 or more).  *)
(* Optional values: None is the empty tuple, Some(x) the 1-tuple <<x>>.    *)
(* A timestamp is an integer number of hours since an epoch; its           *)
(* hour-of-day is ts % 24.  Indices reported to callers are 0-based as in  *)
(* the source; TLA+ sequence positions are 1-based.                        *)
(***************************************************************************)
EXTENDS Integers, Sequences, FiniteSets, Bags, TLC

VARIABLES
    thresholds,   \* CrashGameCalculator.thresholds
    multipliers,  \* the outcome sequence handed to the calculator, index 0 first
    pc,           \* "idle", or "streak_scan" while calculate_streaks is looping
    scan,         \* locals of the calculate_streaks call in progress
    result,       \* what the most recent call returned (NoResult while one runs)
    max_retries,  \* SpaceXYCollector.max_retries
    running,      \* SpaceXYCollector.running
    retry_count,  \* collect_with_playwright: local retry_count
    wait_time,    \* collect_with_playwright: local wait_time, in units of retry_delay
    browser,      \* whether a browser launched by collect_with_playwright is open
    phase,        \* where the run() / collect_with_playwright call stands
    pending,      \* an exception raised by page.goto is on its way through `finally`
    seen,         \* what an observer of the collector has seen so far (history)
    rows,         \* the table spacexy_rounds: round_id -> stored row
    rounds_collected, \* SpaceXYCollector.rounds_collected
    tasks,        \* the save_round coroutines in progress
    calls,        \* how many save_round coroutines have been created
    outcome,      \* how the save_round call that finished last ended (history)
    dist          \* the get_distribution request in progress, or its response

calculator == <<thresholds, multipliers, pc, scan, result>>

collector ==
    <<max_retries, running, retry_count, wait_time, browser, phase, pending, seen>>

store == <<rows, rounds_collected, tasks, calls, outcome>>

api == <<dist>>

vars == <<calculator, collector, store, api>>

-----------------------------------------------------------------------------
(* Fixed-point units and rounding *)

Scale == 100000

PctScale == 10000

\* A multiplier given in hundredths, e.g. X(150) is 1.50.
X(hundredths) == hundredths * (Scale \div 100)

None == <<>>

Some(x) == <<x>>

Min(a, b) == IF a <= b THEN a ELSE b

Max(a, b) == IF a >= b THEN a ELSE b

\* num/den (den > 0) rounded to the nearest integer, ties to even.
RoundHalfEven(num, den) ==
    LET q == num \div den
        r == num - q * den
    IN  IF 2 * r < den THEN q
        ELSE IF 2 * r > den THEN q + 1
        ELSE IF q % 2 = 0 THEN q ELSE q + 1

\* num/den rounded to the nearest multiple of unit.
Round(num, den, unit) == unit * RoundHalfEven(num, den * unit)

\* s[::-1]
Reverse(s) == [i \in 1..Len(s) |-> s[Len(s) + 1 - i]]

RECURSIVE SumSeq(_)
SumSeq(s) == IF s = <<>> THEN 0 ELSE Head(s) + SumSeq(Tail(s))

\* Mutant of Prefix: the slice is not taken.
PrefixWhole(s, k) == s

\* s[:k]
Prefix(s, k) == SubSeq(s, 1, Min(k, Len(s)))

\* sum(1 for m in s if m < th)
CountBelow(s, th) == Cardinality({i \in DOMAIN s : s[i] < th})

\* Mutant of CountAtLeast: the comparison points the wrong way.
CountAtLeastWrongSide(s, th) == Cardinality({i \in DOMAIN s : s[i] <= th})

\* sum(1 for m in s if m >= th)
CountAtLeast(s, th) == Cardinality({i \in DOMAIN s : s[i] >= th})

SeqMax(s) == CHOOSE x \in {s[i] : i \in DOMAIN s} : \A j \in DOMAIN s : s[j] <= x

SeqMin(s) == CHOOSE x \in {s[i] : i \in DOMAIN s} : \A j \in DOMAIN s : s[j] >= x

\* sorted(s), ascending: position k holds the value x with fewer than k
\* elements below it and at least k elements at or below it.
SortAsc(s) ==
    [k \in 1..Len(s) |->
        CHOOSE x \in {s[i] : i \in DOMAIN s} :
            /\ CountBelow(s, x) < k
            /\ k <= Cardinality({i \in DOMAIN s : s[i] <= x})]

\* statistics.mean(s) as the exact fraction num/den
MeanNum(s) == SumSeq(s)

MeanDen(s) == Len(s)

\* statistics.median(s) as the exact fraction num/den
MedianNum(s) ==
    LET d == SortAsc(s)
        n == Len(s)
    IN  IF n % 2 = 1 THEN d[(n \div 2) + 1] ELSE d[n \div 2] + d[(n \div 2) + 1]

MedianDen(s) == IF Len(s) % 2 = 1 THEN 1 ELSE 2

\* statistics.stdev(s) is not evaluated (its squares exceed the integer range);
\* the model keeps the call as a tagged, unevaluated term.
Stdev(s) == <<"stdev", s>>

-----------------------------------------------------------------------------
(* CrashThresholds *)

DefaultThresholds ==
    [instant_crash |-> X(110), quick_crash |-> X(150), early_crash |-> X(200),
     good_round |-> X(300), great_round |-> X(500), big_win |-> X(1000),
     huge_win |-> X(5000), mega_win |-> X(10000), moon |-> X(100000)]

\* A caller-supplied strictly increasing set.
AltThresholds ==
    [instant_crash |-> X(100) + 1, quick_crash |-> X(200), early_crash |-> X(300),
     good_round |-> X(500), great_round |-> X(1000), big_win |-> X(5000),
     huge_win |-> X(10000), mega_win |-> X(50000), moon |-> X(100000)]

\* A caller-supplied set that is not increasing: the model class declares no
\* validator, so construction accepts it.
UnorderedThresholds ==
    [DefaultThresholds EXCEPT !.quick_crash = X(100), !.moon = X(200)]

ThresholdSets == {DefaultThresholds, AltThresholds, UnorderedThresholds}

StrictlyIncreasing(t) ==
    /\ t.instant_crash < t.quick_crash
    /\ t.quick_crash < t.early_crash
    /\ t.early_crash < t.good_round
    /\ t.good_round < t.great_round
    /\ t.great_round < t.big_win
    /\ t.big_win < t.huge_win
    /\ t.huge_win < t.mega_win
    /\ t.mega_win < t.moon

-----------------------------------------------------------------------------
(* CrashGameCalculator.analyze_crashes *)

\* sum(1 for m in multipliers if <test>) / n * 100, rounded to a multiple of
\* unit (PctScale \div 100 is two decimals, 1 is four decimals).
Rate(count, n, unit) == Round(100 * count * PctScale, n, unit)

\* The 1-based positions of the multipliers at or above the moon threshold.
MoonPositions(ms, moon) == {i \in DOMAIN ms : ms[i] >= moon}

\* The first position of a non-empty set of positions.
FirstPosition(S) == CHOOSE i \in S : \A j \in S : i <= j

EmptyCrashAnalysis ==
    [total_rounds |-> 0, average_crash |-> 0, median_crash |-> 0,
     std_deviation |-> 0, instant_crash_rate |-> 0, quick_crash_rate |-> 0,
     early_crash_rate |-> 0, good_round_rate |-> 0, great_round_rate |-> 0,
     big_win_rate |-> 0, huge_win_rate |-> 0, mega_win_rate |-> 0,
     moon_rate |-> 0, highest_crash |-> 0, lowest_crash |-> 0,
     last_moon |-> None, rounds_since_moon |-> None]

\* The last position of a non-empty set of positions.
LastPosition(S) == CHOOSE i \in S : \A j \in S : j <= i

\* Mutant of FindLastMoon: the loop has no break, so the last match is kept.
FindLastMoonNoBreak(t, ms, timestamps) ==
    LET moons == MoonPositions(ms, t.moon)
    IN  IF timestamps = <<>> \/ moons = {} THEN [raised |-> FALSE, last_moon |-> None, rounds_since |-> None]
        ELSE LET i == LastPosition(moons)
             IN  IF i > Len(timestamps)
                 THEN [raised |-> TRUE, last_moon |-> None, rounds_since |-> None]
                 ELSE [raised |-> FALSE, last_moon |-> Some(timestamps[i]),
                       rounds_since |-> Some(i - 1)]

\* The "Find last moon" loop: <<last_moon_time, rounds_since>>.  The loop runs
\* only when a non-empty timestamp list was passed; timestamps[i] past the end
\* of that list raises IndexError.
FindLastMoon(t, ms, timestamps) ==
    LET moons == MoonPositions(ms, t.moon)
    IN  IF timestamps = <<>> \/ moons = {} THEN [raised |-> FALSE, last_moon |-> None, rounds_since |-> None]
        ELSE LET i == FirstPosition(moons)
             IN  IF i > Len(timestamps)
                 THEN [raised |-> TRUE, last_moon |-> None, rounds_since |-> None]
                 ELSE [raised |-> FALSE, last_moon |-> Some(timestamps[i]),
                       rounds_since |-> Some(i - 1)]

\* Mutant of AverageCrash: the sum is divided by n - 1.
AverageCrashBessel(ms) ==
    Round(MeanNum(ms), Max(MeanDen(ms) - 1, 1), Scale \div 10000)

\* round(statistics.mean(multipliers), 4)
AverageCrash(ms) == Round(MeanNum(ms), MeanDen(ms), Scale \div 10000)

analyze_crashes(t, ms, timestamps) ==
    IF ms = <<>> THEN EmptyCrashAnalysis
    ELSE
    LET n == Len(ms)
        two == PctScale \div 100
        found == FindLastMoon(t, ms, timestamps)
    IN  IF found.raised THEN [raised |-> "IndexError"]
        ELSE
        [total_rounds |-> n,
         average_crash |-> AverageCrash(ms),
         median_crash |-> Round(MedianNum(ms), MedianDen(ms), Scale \div 10000),
         std_deviation |-> IF n > 1 THEN Stdev(ms) ELSE 0,
         instant_crash_rate |-> Rate(CountBelow(ms, t.instant_crash), n, two),
         quick_crash_rate |-> Rate(CountBelow(ms, t.quick_crash), n, two),
         early_crash_rate |-> Rate(CountBelow(ms, t.early_crash), n, two),
         good_round_rate |-> Rate(CountAtLeast(ms, t.good_round), n, two),
         great_round_rate |-> Rate(CountAtLeast(ms, t.great_round), n, two),
         big_win_rate |-> Rate(CountAtLeast(ms, t.big_win), n, two),
         huge_win_rate |-> Rate(CountAtLeast(ms, t.huge_win), n, two),
         mega_win_rate |-> Rate(CountAtLeast(ms, t.mega_win), n, two),
         moon_rate |-> Rate(CountAtLeast(ms, t.moon), n, 1),
         highest_crash |-> SeqMax(ms),
         lowest_crash |-> SeqMin(ms),
         last_moon |-> found.last_moon,
         rounds_since_moon |-> found.rounds_since]

-----------------------------------------------------------------------------
(* CrashGameCalculator.calculate_quick_crash_alert *)

\* Mutant of ConsecutiveBelow: the loop has no break.
ConsecutiveBelowNoBreak(ms, th) == CountBelow(ms, th)

\* Mutant of ConsecutiveBelow: the test is m <= th.
RECURSIVE ConsecutiveAtMost(_, _)
ConsecutiveAtMost(ms, th) ==
    IF ms = <<>> THEN 0
    ELSE IF Head(ms) <= th THEN 1 + ConsecutiveAtMost(Tail(ms), th)
    ELSE 0

\* The "Count consecutive quick crashes" loop: the number of leading elements
\* below th, stopping at the first one that is not.
RECURSIVE ConsecutiveBelow(_, _)
ConsecutiveBelow(ms, th) ==
    IF ms = <<>> THEN 0
    ELSE IF Head(ms) < th THEN 1 + ConsecutiveBelow(Tail(ms), th)
    ELSE 0

\* Mutant of AlertLevel: the "high" test comes before the "critical" test.
AlertLevelHighFirst(consecutive, last_10, last_20) ==
    IF consecutive >= 3 \/ last_10 >= 5 THEN "high"
    ELSE IF consecutive >= 5 \/ last_10 >= 7 THEN "critical"
    ELSE IF last_10 >= 4 \/ last_20 >= 10 THEN "medium"
    ELSE "low"

AlertLevel(consecutive, last_10, last_20) ==
    IF consecutive >= 5 \/ last_10 >= 7 THEN "critical"
    ELSE IF consecutive >= 3 \/ last_10 >= 5 THEN "high"
    ELSE IF last_10 >= 4 \/ last_20 >= 10 THEN "medium"
    ELSE "low"

calculate_quick_crash_alert(t, ms) ==
    LET last_10 == CountBelow(Prefix(ms, 10), t.quick_crash)
        last_20 == CountBelow(Prefix(ms, 20), t.quick_crash)
        last_50 == CountBelow(Prefix(ms, 50), t.quick_crash)
        consecutive == ConsecutiveBelow(ms, t.quick_crash)
    IN  [last_10_quick_crashes |-> last_10,
         last_20_quick_crashes |-> last_20,
         last_50_quick_crashes |-> last_50,
         alert_level |-> AlertLevel(consecutive, last_10, last_20),
         consecutive_quick_crashes |-> consecutive]

-----------------------------------------------------------------------------
(* CrashGameCalculator.track_moons *)

\* moon_indices: the 0-based indices of the moons, ascending.
RECURSIVE MoonIndicesFrom(_, _, _)
MoonIndicesFrom(ms, moon, i) ==
    IF i > Len(ms) THEN <<>>
    ELSE (IF ms[i] >= moon THEN <<i - 1>> ELSE <<>>) \o MoonIndicesFrom(ms, moon, i + 1)

\* Mutant of MoonIndices: the indices are collected oldest first.
MoonIndicesDescending(ms, moon) == Reverse(MoonIndicesFrom(ms, moon, 1))

MoonIndices(ms, moon) == MoonIndicesFrom(ms, moon, 1)

\* gaps = [moon_indices[i] - moon_indices[i+1] for i in range(len - 1)]
MoonGaps(idx) == [i \in 1..(Len(idx) - 1) |-> idx[i] - idx[i + 1]]

\* round(avg_between, 1) if avg_between else None, in tenths of a round.
AverageBetweenMoons(idx) ==
    IF Len(idx) > 1 /\ SumSeq(MoonGaps(idx)) # 0
    THEN Some(RoundHalfEven(10 * SumSeq(MoonGaps(idx)), Len(MoonGaps(idx))))
    ELSE None

track_moons(t, ms, timestamps) ==
    LET moon_indices == MoonIndices(ms, t.moon)
        found == moon_indices # <<>>
        last_idx == moon_indices[1]
    IN  [total_moons |-> Len(moon_indices),
         last_moon_value |-> IF found THEN Some(ms[last_idx + 1]) ELSE None,
         last_moon_time |->
             IF found /\ timestamps # <<>> /\ last_idx < Len(timestamps)
             THEN Some(timestamps[last_idx + 1]) ELSE None,
         rounds_since_moon |-> IF found THEN last_idx ELSE Len(ms),
         average_rounds_between_moons |-> AverageBetweenMoons(moon_indices),
         moon_probability |->
             IF ms # <<>> THEN Rate(Len(moon_indices), Len(ms), 1) ELSE 0]

-----------------------------------------------------------------------------
(* CrashGameCalculator.optimize_cashout *)

DefaultTargets ==
    <<X(150), X(200), X(250), X(300), X(400), X(500), X(1000), X(2000), X(5000)>>

\* Mutant of EffectiveTargets: an empty list is used as given.
EffectiveTargetsAsGiven(targets) == targets

\* if not targets: targets = [1.5, ...]
EffectiveTargets(targets) == IF targets = <<>> THEN DefaultTargets ELSE targets

\* ev = (win_rate / 100 * target) - (1 - win_rate / 100), times n: the exact
\* expected value is EvNum / n, in multiplier units.
EvNum(wins, n, target) == wins * target - Scale * (n - wins)

\* Mutant of Recommended: either condition suffices.
RecommendedEither(wins, n, target) ==
    \/ EvNum(wins, n, target) > 9 * n * (Scale \div 10)
    \/ 100 * wins >= 30 * n

\* recommended = ev > 0.9 and win_rate >= 30
Recommended(wins, n, target) ==
    /\ EvNum(wins, n, target) > 9 * n * (Scale \div 10)
    /\ 100 * wins >= 30 * n

\* Mutant of CashoutFor: the win count is not divided by n.
CashoutForNoDivide(ms, target) ==
    LET n == Len(ms)
        wins == CountAtLeast(ms, target)
    IN  [target_multiplier |-> target,
         win_rate |-> Rate(wins, 1, PctScale \div 100),
         expected_value |-> Round(EvNum(wins, n, target), n, Scale \div 10000),
         risk_reward_ratio |->
             IF wins > 0 THEN Round(target * wins, n, Scale \div 10000) ELSE 0,
         recommended |-> Recommended(wins, n, target)]

\* Mutant of CashoutFor: target / (100 / win_rate) is evaluated without the
\* win_rate > 0 test, so a target no outcome reaches raises
\* ZeroDivisionError in place of its fragment.
CashoutForUnguarded(ms, target) ==
    LET n == Len(ms)
        wins == CountAtLeast(ms, target)
    IN  IF wins = 0 THEN [raised |-> "ZeroDivisionError"]
        ELSE [target_multiplier |-> target,
              win_rate |-> Rate(wins, n, PctScale \div 100),
              expected_value |-> Round(EvNum(wins, n, target), n, Scale \div 10000),
              risk_reward_ratio |-> Round(target * wins, n, Scale \div 10000),
              recommended |-> Recommended(wins, n, target)]

\* One pass of the loop body for one target.
CashoutFor(ms, target) ==
    LET n == Len(ms)
        wins == CountAtLeast(ms, target)
    IN  [target_multiplier |-> target,
         win_rate |-> Rate(wins, n, PctScale \div 100),
         expected_value |-> Round(EvNum(wins, n, target), n, Scale \div 10000),
         risk_reward_ratio |->
             IF wins > 0 THEN Round(target * wins, n, Scale \div 10000) ELSE 0,
         recommended |-> Recommended(wins, n, target)]

optimize_cashout(ms, targets) ==
    LET eff == EffectiveTargets(targets)
    IN  IF Len(ms) = 0 THEN <<>>
        ELSE [k \in 1..Len(eff) |-> CashoutFor(ms, eff[k])]

-----------------------------------------------------------------------------
(* CrashGameCalculator.analyze_hourly_patterns *)

\* timestamp.hour
HourOf(ts) == ts % 24

\* hourly[h]: the multipliers of the rounds whose timestamp falls in hour h,
\* in input order.  A round is the pair <<multiplier, timestamp>>.
RECURSIVE HourBucket(_, _)
HourBucket(rounds, h) ==
    IF rounds = <<>> THEN <<>>
    ELSE (IF HourOf(Head(rounds)[2]) = h THEN <<Head(rounds)[1]>> ELSE <<>>)
         \o HourBucket(Tail(rounds), h)

HourStat(bucket, h) ==
    [hour |-> h,
     average |-> Round(MeanNum(bucket), MeanDen(bucket), Scale \div 10000),
     rounds |-> Len(bucket),
     big_win_rate |-> Rate(CountAtLeast(bucket, X(1000)), Len(bucket), PctScale \div 100)]

\* The hours of day of the rounds, in order of first appearance.
RECURSIVE FirstSeenHours(_)
FirstSeenHours(rounds) ==
    IF rounds = <<>> THEN <<>>
    ELSE LET before == FirstSeenHours(SubSeq(rounds, 1, Len(rounds) - 1))
             h == HourOf(rounds[Len(rounds)][2])
         IN  IF \E k \in DOMAIN before : before[k] = h THEN before
             ELSE Append(before, h)

\* Mutant of HourlyStatsFrom: the entries are listed in the order in which the
\* hours first appear in the input, not in hour order.
HourlyStatsFirstSeen(rounds, h) ==
    LET hours == FirstSeenHours(rounds)
    IN  [k \in DOMAIN hours |-> HourStat(HourBucket(rounds, hours[k]), hours[k])]

\* hourly_stats: one entry per hour 0..23 that has data, in hour order.
RECURSIVE HourlyStatsFrom(_, _)
HourlyStatsFrom(rounds, h) ==
    IF h > 23 THEN <<>>
    ELSE LET bucket == HourBucket(rounds, h)
         IN  (IF bucket # <<>> THEN <<HourStat(bucket, h)>> ELSE <<>>)
             \o HourlyStatsFrom(rounds, h + 1)

\* sorted(stats, key=average, reverse=True): stable, so entries with equal
\* averages keep their hour order.
RECURSIVE InsertByAverageDesc(_, _)
InsertByAverageDesc(x, s) ==
    IF s = <<>> THEN <<x>>
    ELSE IF Head(s).average > x.average
         THEN <<Head(s)>> \o InsertByAverageDesc(x, Tail(s))
         ELSE <<x>> \o s

RECURSIVE SortByAverageDesc(_)
SortByAverageDesc(s) ==
    IF s = <<>> THEN <<>>
    ELSE InsertByAverageDesc(Head(s), SortByAverageDesc(Tail(s)))

\* sorted_stats[:3] if len(sorted_stats) >= 3 else sorted_stats
BestHours(sorted_stats) ==
    IF Len(sorted_stats) >= 3 THEN SubSeq(sorted_stats, 1, 3) ELSE sorted_stats

\* Mutant of WorstHours: the slice is not reversed.
WorstHoursNotReversed(sorted_stats) ==
    IF Len(sorted_stats) >= 3
    THEN SubSeq(sorted_stats, Len(sorted_stats) - 2, Len(sorted_stats))
    ELSE <<>>

\* sorted_stats[-3:][::-1] if len(sorted_stats) >= 3 else []
WorstHours(sorted_stats) ==
    IF Len(sorted_stats) >= 3
    THEN Reverse(SubSeq(sorted_stats, Len(sorted_stats) - 2, Len(sorted_stats)))
    ELSE <<>>

analyze_hourly_patterns(rounds) ==
    LET sorted_stats == SortByAverageDesc(HourlyStatsFrom(rounds, 0))
    IN  [best |-> BestHours(sorted_stats), worst |-> WorstHours(sorted_stats)]

\* rounds as the service builds them: the rows' multipliers and timestamps.
Zip(ms, timestamps) == [i \in 1..Len(ms) |-> <<ms[i], timestamps[i]>>]

-----------------------------------------------------------------------------
(* CrashGameCalculator.calculate_streaks *)

\* Mutant of CurrentType: the test is written for "above", so an empty
\* sequence falls through to "below".
CurrentTypeDefaultBelow(ms, threshold) ==
    IF ms # <<>> /\ ms[1] >= threshold THEN "above" ELSE "below"

\* current_type
CurrentType(ms, threshold) ==
    IF ms # <<>> /\ ms[1] < threshold THEN "below" ELSE "above"

RECURSIVE ConsecutiveAtLeast(_, _)
ConsecutiveAtLeast(ms, th) ==
    IF ms = <<>> THEN 0
    ELSE IF Head(ms) >= th THEN 1 + ConsecutiveAtLeast(Tail(ms), th)
    ELSE 0

\* Mutant of CurrentCount: only elements below the threshold are counted.
CurrentCountBelowOnly(ms, threshold) == ConsecutiveBelow(ms, threshold)

\* current_count: the "Current streak" loop.
CurrentCount(ms, threshold) ==
    IF CurrentType(ms, threshold) = "below"
    THEN ConsecutiveBelow(ms, threshold)
    ELSE ConsecutiveAtLeast(ms, threshold)

NoScan ==
    [threshold |-> 0, current_type |-> "above", current_count |-> 0, i |-> 0,
     below_streaks |-> <<>>, above_streaks |-> <<>>,
     current_below |-> 0, current_above |-> 0]

\* The locals when the "Historical streaks" loop is about to start.
ScanStart(ms, threshold) ==
    [threshold |-> threshold,
     current_type |-> CurrentType(ms, threshold),
     current_count |-> CurrentCount(ms, threshold),
     i |-> 0,
     below_streaks |-> <<>>, above_streaks |-> <<>>,
     current_below |-> 0, current_above |-> 0]

\* Mutant of ScanStep: a closed run is pushed but its counter is not reset.
ScanStepNoReset(sc, m) ==
    IF m < sc.threshold
    THEN [sc EXCEPT !.i = @ + 1,
                    !.current_below = @ + 1,
                    !.above_streaks =
                        IF sc.current_above > 0 THEN Append(@, sc.current_above) ELSE @]
    ELSE [sc EXCEPT !.i = @ + 1,
                    !.current_above = @ + 1,
                    !.below_streaks =
                        IF sc.current_below > 0 THEN Append(@, sc.current_below) ELSE @]

\* One iteration of "for m in multipliers" over the element m.
ScanStep(sc, m) ==
    IF m < sc.threshold
    THEN [sc EXCEPT !.i = @ + 1,
                    !.current_below = @ + 1,
                    !.above_streaks =
                        IF sc.current_above > 0 THEN Append(@, sc.current_above) ELSE @,
                    !.current_above = 0]
    ELSE [sc EXCEPT !.i = @ + 1,
                    !.current_above = @ + 1,
                    !.below_streaks =
                        IF sc.current_below > 0 THEN Append(@, sc.current_below) ELSE @,
                    !.current_below = 0]

\* max / rounded mean (in hundredths) / count of one side's completed runs.
StreakSummary(streaks) ==
    [max |-> IF streaks # <<>> THEN SeqMax(streaks) ELSE 0,
     average |-> IF streaks # <<>>
                 THEN RoundHalfEven(100 * SumSeq(streaks), Len(streaks)) ELSE 0,
     total |-> Len(streaks)]

\* Mutant of StreakResult: the run still open when the loop ends is pushed
\* before the history is summarised.
StreakResultPushesOpenRun(sc) ==
    [current_streak |->
         [type |-> sc.current_type, count |-> sc.current_count,
          threshold |-> sc.threshold],
     streak_history |->
         [below |-> StreakSummary(IF sc.current_below > 0
                                  THEN Append(sc.below_streaks, sc.current_below)
                                  ELSE sc.below_streaks),
          above |-> StreakSummary(IF sc.current_above > 0
                                  THEN Append(sc.above_streaks, sc.current_above)
                                  ELSE sc.above_streaks)]]

\* The pair (current_streak, streak_history) returned after the loop.
StreakResult(sc) ==
    [current_streak |->
         [type |-> sc.current_type, count |-> sc.current_count,
          threshold |-> sc.threshold],
     streak_history |->
         [below |-> StreakSummary(sc.below_streaks),
          above |-> StreakSummary(sc.above_streaks)]]

\* The history loop run from sc to the end of the sequence.
RECURSIVE ScanAll(_, _)
ScanAll(sc, ms) ==
    IF sc.i = Len(ms) THEN sc ELSE ScanAll(ScanStep(sc, ms[sc.i + 1]), ms)

\* calculate_streaks as a function of its arguments.
calculate_streaks(ms, threshold) ==
    StreakResult(ScanAll(ScanStart(ms, threshold), ms))

-----------------------------------------------------------------------------
(* Inputs *)

MaxLen == 3

MaxRun == 11

MaxGap == 3

MaxTail == 3

InWindow == 3

MaxBeyond == 7

\* 1.00001, 1.5, 2.0 and 1000.0: a value finer than four decimals, and values
\* on the quick-crash, early-crash / streak and moon boundaries.
Vals == {X(100) + 1, X(150), X(200), X(100000)}

ShortSeqs == UNION {[1..k -> Vals] : k \in 0..MaxLen}

Rep(v, k) == [i \in 1..k |-> v]

\* Long windows: a run of quick crashes, a gap of moons, more quick crashes.
RunSeqs ==
    {Rep(X(100) + 1, a) \o Rep(X(100000), b) \o Rep(X(100) + 1, c) :
        a \in 0..MaxRun, b \in 0..MaxGap, c \in 0..MaxTail}

\* The look-back windows of calculate_quick_crash_alert.
Windows == {10, 20, 50}

\* Sequences longer than a window: InWindow quick crashes at the far end of the
\* window followed by MaxBeyond more outside it, and a window filled with
\* quick crashes with one more behind it.  The filler is 2.0.
WindowSeqs ==
    {Rep(X(200), w - InWindow) \o Rep(X(100) + 1, InWindow + MaxBeyond) : w \in Windows}
        \cup {Rep(X(100) + 1, w + 1) : w \in Windows}

\* [1.0, 1.2, 1.8, 3.5, 1.1]
ExampleWindow == <<X(100), X(120), X(180), X(350), X(110)>>

\* Sequences holding a multiplier that is not positive: nothing in the
\* calculator or its callers inspects the values it is handed.
MalformedSeqs == {<<0>>, <<X(150), -X(100)>>}

MultiplierSeqs ==
    ShortSeqs \cup RunSeqs \cup WindowSeqs \cup {ExampleWindow} \cup MalformedSeqs

\* n timestamps, `step` hours apart, most recent first.
Clock(n, step) == [i \in 1..n |-> 1000 - step * (i - 1)]

\* 1: consecutive hours; 12: two hours of day alternating; 23: hours of day
\* ascending; 24: one hour of day on successive days.
ClockSteps == {1, 12, 23, 24}

\* The timestamp lists a caller may pass for n multipliers: none, one per
\* multiplier, or a list one short.
TimestampLists(n) == {None, Clock(n, 1), Clock(Max(n - 1, 0), 1)}

\* No targets (the default list applies), or a caller's list: 50.0, 0.9, 1.0.
TargetLists == {<<>>, <<X(5000), X(90), X(100)>>}

StreakThresholds == {X(200), X(150)}

NoResult == [op |-> "none", args |-> <<>>, value |-> <<>>]

-----------------------------------------------------------------------------
(* api/main.py: DISTRIBUTION_BUCKETS and get_distribution *)

\* The SQL conditions on crash_multiplier: "= 1" is lo = hi = 1.0,
\* "BETWEEN lo AND hi" is lo <= x <= hi, ">= 100.01" has no upper end.
DISTRIBUTION_BUCKETS ==
    <<[range |-> "instant", lo |-> X(100), hi |-> Some(X(100))],
      [range |-> "1.01-1.5x", lo |-> X(101), hi |-> Some(X(150))],
      [range |-> "1.51-2x", lo |-> X(151), hi |-> Some(X(200))],
      [range |-> "2.01-3x", lo |-> X(201), hi |-> Some(X(300))],
      [range |-> "3.01-5x", lo |-> X(301), hi |-> Some(X(500))],
      [range |-> "5.01-10x", lo |-> X(501), hi |-> Some(X(1000))],
      [range |-> "10.01-50x", lo |-> X(1001), hi |-> Some(X(5000))],
      [range |-> "50.01-100x", lo |-> X(5001), hi |-> Some(X(10000))],
      [range |-> "100x+", lo |-> X(10001), hi |-> None]>>

\* crash_multiplier satisfies the condition of bucket b.
InBucket(b, x) == b.lo <= x /\ (b.hi = None \/ x <= b.hi[1])

\* SELECT COUNT(*) FROM spacexy_rounds WHERE crash_multiplier <condition of b>
CountRowsIn(table, b) ==
    Cardinality({id \in DOMAIN table : InBucket(b, table[id].crash_multiplier)})

\* No request is being served.
NoRequest == [at |-> "idle", total |-> 0, buckets |-> <<>>]

-----------------------------------------------------------------------------
(* SpaceXYCollector: parse_ws_message, save_round, generate_test_data *)

\* A JSON value is tagged with its Python type: [num |-> x] (int or float,
\* x in 1/Scale), [str |-> s], [dict |-> d] with d a record, [list |-> l].
Num(x) == [num |-> x]

Str(s) == [str |-> s]

Dict(d) == [dict |-> d]

IsNum(v) == "num" \in DOMAIN v

IsStr(v) == "str" \in DOMAIN v

IsDict(v) == "dict" \in DOMAIN v

\* float('nan'), which json.loads and float(str) both produce: a value for
\* which every comparison is false.  Comparisons of multipliers that may be
\* NaN go through LeZero and GtZero.
NaN == -999999999

\* x <= 0 and x > 0 on floats.
LeZero(x) == x # NaN /\ x <= 0

GtZero(x) == x # NaN /\ x > 0

MULTIPLIER_FIELDS ==
    <<"multiplier", "crash", "crashedAt", "result", "payout",
      "crashMultiplier", "odds", "coefficient", "crashPoint", "x">>

ROUND_ID_FIELDS ==
    <<"roundId", "gameId", "id", "round", "roundNumber",
      "gameNumber", "sessionId", "round_id">>

END_MESSAGE_TYPES ==
    {"round_result", "crash", "finish", "end", "game_over",
     "round_end", "busted", "crashed", "land"}

\* The fields _extract_message_type looks for, in its order.
TypeFields == <<"type", "t", "action", "event", "messageType", "cmd">>

\* str(v): a string is returned as it is; the rendering of any other value
\* (a number, None, a dict, a list) is a non-empty string that is no
\* round-end type, written "other".
PyStr(v) == IF IsStr(v) THEN v.str ELSE "other"

\* s.lower(), for the strings the messages carry.
Lower(s) ==
    CASE s = "CRASH" -> "crash"
      [] s = "Round_End" -> "round_end"
      [] s = "TICK" -> "tick"
      [] OTHER -> s

\* float(s): Some(value), or None where Python raises ValueError.
ParseFloat(s) ==
    CASE s = "1.5" -> Some(X(150))
      [] s = "-2" -> Some(-X(200))
      [] s = "0.0" -> Some(0)
      [] s = "nan" -> Some(NaN)
      [] OTHER -> None

\* The first of `fields`, in order, that satisfies Ok: Some(name) or None.
FirstField(fields, Ok(_)) ==
    LET hits == {k \in DOMAIN fields : Ok(fields[k])}
    IN  IF hits = {} THEN None
        ELSE Some(fields[CHOOSE k \in hits : \A j \in hits : k <= j])

\* _extract_message_type: str of the first type field present, or None.
extract_message_type(data) ==
    LET Present(f) == f \in DOMAIN data
        found == FirstField(TypeFields, Present)
    IN  IF found = None THEN None ELSE Some(PyStr(data[found[1]]))

\* The loop body of _extract_multiplier returns for a number, and for a string
\* that float() accepts; for any other value the loop goes on.
Converts(v) == IsNum(v) \/ (IsStr(v) /\ ParseFloat(v.str) # None)

ToFloat(v) == IF IsNum(v) THEN v.num ELSE ParseFloat(v.str)[1]

\* _extract_multiplier: Some(float) or None.
RECURSIVE extract_multiplier(_)
extract_multiplier(data) ==
    LET Usable(f) == f \in DOMAIN data /\ Converts(data[f])
        found == FirstField(MULTIPLIER_FIELDS, Usable)
    IN  IF found # None THEN Some(ToFloat(data[found[1]]))
        ELSE IF "result" \in DOMAIN data /\ IsDict(data.result)
             THEN extract_multiplier(data.result.dict)
        ELSE IF "data" \in DOMAIN data /\ IsDict(data.data)
             THEN extract_multiplier(data.data.dict)
        ELSE None

\* _extract_round_id: Some(str) or None.
RECURSIVE extract_round_id(_)
extract_round_id(data) ==
    LET Present(f) == f \in DOMAIN data
        found == FirstField(ROUND_ID_FIELDS, Present)
    IN  IF found # None THEN Some(PyStr(data[found[1]]))
        ELSE IF "result" \in DOMAIN data /\ IsDict(data.result)
             THEN extract_round_id(data.result.dict)
        ELSE IF "data" \in DOMAIN data /\ IsDict(data.data)
             THEN extract_round_id(data.data.dict)
        ELSE None

\* What parse_ws_message decides for a message: no save, or a save_round
\* task for a multiplier and a round id (None: one is generated).
NoSave == [save |-> FALSE, round_id |-> None, multiplier |-> 0]

\* parse_ws_message up to the create_task call.
parse_ws_message(msg) ==
    IF ~IsDict(msg) THEN NoSave
    ELSE LET data == msg.dict
             msg_type == extract_message_type(data)
             multiplier == extract_multiplier(data)
         IN  IF /\ msg_type # None
                /\ msg_type[1] # ""
                /\ Lower(msg_type[1]) \notin END_MESSAGE_TYPES
             THEN NoSave
             ELSE IF multiplier = None THEN NoSave
             ELSE IF LeZero(multiplier[1]) THEN NoSave
             ELSE [save |-> TRUE, round_id |-> extract_round_id(data),
                   multiplier |-> multiplier[1]]

\* The WebSocket messages handled: round ends in several formats, in-flight
\* ticks, messages without a type, malformed and non-positive multipliers.
Messages ==
    {Dict([type |-> Str("crash"), crash |-> Num(X(250)), roundId |-> Str("r1")]),
     Dict([type |-> Str("CRASH"), multiplier |-> Str("1.5"), id |-> Str("r2")]),
     Dict([type |-> Str("round_result"),
           result |-> Dict([crash |-> Num(X(100) + 500), roundId |-> Str("r1")])]),
     Dict([t |-> Str("end"), event |-> Str("tick"), x |-> Num(X(15000))]),
     Dict([type |-> Str("bet"), t |-> Str("end"), payout |-> Num(X(200)),
           roundId |-> Str("r2")]),
     Dict([type |-> Str("TICK"), x |-> Num(X(120)), roundId |-> Str("r1")]),
     Dict([x |-> Num(X(120)), roundId |-> Str("r2")]),
     Dict([type |-> Str(""), x |-> Num(X(130))]),
     Dict([type |-> Num(1), crash |-> Num(X(300)), roundId |-> Str("r1")]),
     Dict([type |-> Str("crash"), crash |-> Str("abc"), payout |-> Num(X(300)),
           roundId |-> Str("r2")]),
     Dict([type |-> Str("crash"), crash |-> Num(0), roundId |-> Str("r1")]),
     Dict([type |-> Str("crash"), crash |-> Str("-2"), roundId |-> Str("r2")]),
     Dict([type |-> Str("crash"), crash |-> Num(NaN), roundId |-> Str("r2")]),
     Dict([type |-> Str("crash"), roundId |-> Str("r1")]),
     [list |-> <<Num(X(250))>>]}

\* f"spacexy_{datetime.now().timestamp()}": two messages handled within one
\* clock reading get one id, otherwise different ones.
GeneratedIds == {"spacexy_1", "spacexy_2"}

\* The callers of save_round other than parse_ws_message.
DirectCall == [call |-> "save_round"]

TestData == [call |-> "generate_test_data"]

Earlier == [call |-> "earlier run"]

FromWs(origin) == "dict" \in DOMAIN origin

\* The round ids and multipliers a caller hands to save_round directly.
CallIds == {"r1"}

CallMultipliers == {-X(100), 0, X(250)}

\* min(0.97 / (1 - u), 10000) rounded to 2 decimals, or 1.0: from 1.0 to 10000.0.
TestMultipliers == {X(100), X(1000000)}

MaxCalls == 2

NoCall ==
    [multiplier |-> 0, returned |-> "none", stored |-> FALSE, existed |-> FALSE,
     counted |-> FALSE]

\* The table spacexy_rounds with one row.
OneRow(round_id, multiplier, origin) ==
    round_id :> [crash_multiplier |-> multiplier, origin |-> origin]

\* No save_round call is in progress and none has been made.
StoreAtRest ==
    /\ rounds_collected = 0
    /\ tasks = EmptyBag
    /\ calls = 0
    /\ outcome = NoCall

\* The save_round coroutines in progress that stand at `at`.
TasksAt(at) == {task \in BagToSet(tasks) : task.at = at}

\* The coroutine `task` moves on as `next`.
Resumed(task, next) == tasks' = (tasks (-) SetToBag({task})) (+) SetToBag({next})

\* A save_round coroutine has been created (by create_task or by a caller).
Created(round_id, multiplier, origin) ==
    /\ calls < MaxCalls
    /\ tasks' = tasks (+) SetToBag({[round_id |-> round_id, multiplier |-> multiplier,
                                     origin |-> origin, at |-> "validate",
                                     stored |-> FALSE, existed |-> FALSE]})
    /\ calls' = calls + 1

\* The coroutine `task` has finished with `returned`.
Finished(task, returned, counted) ==
    /\ tasks' = tasks (-) SetToBag({task})
    /\ outcome' = [multiplier |-> task.multiplier, returned |-> returned,
                   stored |-> task.stored, existed |-> task.existed,
                   counted |-> counted]

\* _process_websocket_message / parse_ws_message for one received frame.
ParseWsMessage ==
    \E msg \in Messages :
        LET decision == parse_ws_message(msg)
        IN  /\ decision.save
            /\ \E generated \in GeneratedIds :
                   Created(IF decision.round_id = None THEN generated
                           ELSE decision.round_id[1],
                           decision.multiplier, msg)
            /\ UNCHANGED <<rows, rounds_collected, outcome, dist, calculator, collector>>

\* save_round called by another caller.
SaveRoundCall ==
    /\ \E round_id \in CallIds, multiplier \in CallMultipliers :
           Created(round_id, multiplier, DirectCall)
    /\ UNCHANGED <<rows, rounds_collected, outcome, dist, calculator, collector>>

\* One iteration of generate_test_data up to its save_round call; the ids
\* f"test_{now}_{i}" differ from one iteration to the next.
GenerateTestRound ==
    /\ \E multiplier \in TestMultipliers :
           Created("test_" \o ToString(calls), multiplier, TestData)
    /\ UNCHANGED <<rows, rounds_collected, outcome, dist, calculator, collector>>

\* Mutant of SaveValidate: the multiplier is not validated.
SaveValidateNothing ==
    \E task \in TasksAt("validate") :
        /\ Resumed(task, [task EXCEPT !.at = "insert"])
        /\ UNCHANGED <<rows, rounds_collected, calls, outcome, dist, calculator, collector>>

\* save_round: `if multiplier <= 0: raise ValueError`, else on to the database.
SaveValidate ==
    \E task \in TasksAt("validate") :
        /\ IF LeZero(task.multiplier)
           THEN Finished(task, "ValueError", FALSE)
           ELSE Resumed(task, [task EXCEPT !.at = "insert"]) /\ outcome' = outcome
        /\ UNCHANGED <<rows, rounds_collected, calls, dist, calculator, collector>>

\* INSERT OR IGNORE ... and commit: the row is written unless its round_id is
\* already stored (UNIQUE) or its multiplier is NaN, which SQLite binds as
\* NULL (NOT NULL); in both cases the statement is skipped without an error.
\* Or the connection, the statement or the commit fails with aiosqlite.Error
\* and save_round returns False, nothing written.
SaveInsert ==
    \E task \in TasksAt("insert") :
        /\ \/ LET existed == task.round_id \in DOMAIN rows
                  written == ~existed /\ task.multiplier # NaN
              IN  /\ rows' = IF written
                             THEN rows @@ OneRow(task.round_id, task.multiplier,
                                                 task.origin)
                             ELSE rows
                  /\ Resumed(task, [task EXCEPT !.at = "count", !.stored = written,
                                                !.existed = existed])
                  /\ outcome' = outcome
           \/ /\ Finished(task, "False", FALSE)
              /\ rows' = rows
        /\ UNCHANGED <<rounds_collected, calls, dist, calculator, collector>>

\* After the commit: self.rounds_collected += 1; return True.
SaveCount ==
    \E task \in TasksAt("count") :
        /\ rounds_collected' = rounds_collected + 1
        /\ Finished(task, "True", TRUE)
        /\ UNCHANGED <<rows, calls, dist, calculator, collector>>

\* Nothing is stored, no call is in progress and no request is being served.
NothingStored ==
    /\ StoreAtRest
    /\ rows = <<>>
    /\ dist = NoRequest

-----------------------------------------------------------------------------
(* SpaceXYCollector: run, collect_with_playwright, stop *)

\* The collection call stands at one of: "idle" (run() not yet called),
\* "loop" (the while test), "launch", "goto", "monitor", "close", "backoff"
\* (awaiting the browser launch, page.goto, the one-second sleep of the
\* monitoring loop, browser.close, the backoff sleep), "except" (entering the
\* outer exception handler), "returned", "raised" (ConnectionError).
\* The awaited browser launch, page.goto and browser.close may each raise;
\* asyncio.sleep does not.

MaxRetries == 3

DefaultMaxRetries == 5

Awaiting == {"launch", "goto", "monitor", "close", "backoff"}

Active == Awaiting \cup {"loop", "except"}

\* History kept for the properties: failed is the number of attempts that have
\* ended in an exception since the last page load that succeeded; attempts the
\* number of passes of the while loop begun; stopped where the call stood
\* when stop() was first called ("no" before that); close_failed whether
\* browser.close has raised.
NothingSeen ==
    [failed |-> 0, attempts |-> 0, stopped |-> "no", close_failed |-> FALSE]

\* SpaceXYCollector(max_retries = m), before run() is called.
Constructed(m) ==
    /\ max_retries = m
    /\ running = FALSE
    /\ retry_count = 0
    /\ wait_time = 0
    /\ browser = FALSE
    /\ phase = "idle"
    /\ pending = FALSE
    /\ seen = NothingSeen

\* run(demo_url): running = True, then collect_with_playwright up to the
\* first test of its while loop.
Run ==
    /\ phase = "idle"
    /\ running' = TRUE
    /\ retry_count' = 0
    /\ phase' = "loop"
    /\ UNCHANGED <<max_retries, wait_time, browser, pending, seen, calculator, store, api>>

\* Mutant of LoopTest: the loop does not test self.running.
LoopTestIgnoringRunning ==
    /\ phase = "loop"
    /\ IF retry_count < max_retries
       THEN /\ phase' = "launch"
            /\ running' = running
            /\ seen' = [seen EXCEPT !.attempts = @ + 1]
       ELSE /\ phase' = "returned"
            /\ running' = FALSE
            /\ seen' = seen
    /\ UNCHANGED <<max_retries, retry_count, wait_time, browser, pending, calculator, store, api>>

\* while self.running and retry_count < self.max_retries: enter the body, or
\* leave the loop and return (run()'s finally then clears running).
LoopTest ==
    /\ phase = "loop"
    /\ IF running /\ retry_count < max_retries
       THEN /\ phase' = "launch"
            /\ running' = running
            /\ seen' = [seen EXCEPT !.attempts = @ + 1]
       ELSE /\ phase' = "returned"
            /\ running' = FALSE
            /\ seen' = seen
    /\ UNCHANGED <<max_retries, retry_count, wait_time, browser, pending, calculator, store, api>>

\* async_playwright(), chromium.launch, new_context, new_page, page.on: the
\* browser is open, or one of the calls raised and leaving the
\* `async with` block has stopped the driver with whatever it launched.
LaunchBrowser ==
    /\ phase = "launch"
    /\ \/ /\ browser' = TRUE
          /\ phase' = "goto"
          /\ seen' = seen
       \/ /\ browser' = FALSE
          /\ phase' = "except"
          /\ seen' = [seen EXCEPT !.failed = @ + 1]
    /\ UNCHANGED <<max_retries, running, retry_count, wait_time, pending, calculator, store, api>>

\* Mutant of LoadPage: a page load that succeeds does not reset retry_count.
LoadPageNoReset ==
    /\ phase = "goto"
    /\ \/ /\ phase' = "monitor"
          /\ pending' = FALSE
          /\ seen' = [seen EXCEPT !.failed = 0]
       \/ /\ phase' = "close"
          /\ pending' = TRUE
          /\ seen' = [seen EXCEPT !.failed = @ + 1]
    /\ UNCHANGED <<max_retries, running, retry_count, wait_time, browser, calculator, store, api>>

\* await page.goto(...): it returns and retry_count is reset, or it raises
\* and the exception is re-raised through `finally`.
LoadPage ==
    /\ phase = "goto"
    /\ \/ /\ retry_count' = 0
          /\ phase' = "monitor"
          /\ pending' = FALSE
          /\ seen' = [seen EXCEPT !.failed = 0]
       \/ /\ retry_count' = retry_count
          /\ phase' = "close"
          /\ pending' = TRUE
          /\ seen' = [seen EXCEPT !.failed = @ + 1]
    /\ UNCHANGED <<max_retries, running, wait_time, browser, calculator, store, api>>

\* while self.running: await asyncio.sleep(1)
Monitor ==
    /\ phase = "monitor"
    /\ phase' = IF running THEN "monitor" ELSE "close"
    /\ UNCHANGED <<max_retries, running, retry_count, wait_time, browser, pending,
                   seen, calculator, store, api>>

\* finally: await browser.close().  When it returns, a pending exception goes
\* on to the handler and otherwise the while loop is tested again; when it
\* raises, its exception goes to the handler (in place of a pending one).
CloseBrowser ==
    /\ phase = "close"
    /\ browser' = FALSE
    /\ pending' = FALSE
    /\ \/ /\ phase' = IF pending THEN "except" ELSE "loop"
          /\ seen' = seen
       \/ /\ phase' = "except"
          /\ seen' = [seen EXCEPT !.close_failed = TRUE,
                                  !.failed = IF pending THEN @ ELSE @ + 1]
    /\ UNCHANGED <<max_retries, running, retry_count, wait_time, calculator, store, api>>

\* except Exception: count the failure, compute the backoff, and either go to
\* sleep or raise ConnectionError (run()'s finally then clears running).
HandleFailure ==
    /\ phase = "except"
    /\ retry_count' = retry_count + 1
    /\ wait_time' = 2 ^ retry_count
    /\ IF retry_count + 1 < max_retries
       THEN phase' = "backoff" /\ running' = running
       ELSE phase' = "raised" /\ running' = FALSE
    /\ UNCHANGED <<max_retries, browser, pending, seen, calculator, store, api>>

\* await asyncio.sleep(wait_time) completes.
BackoffSleep ==
    /\ phase = "backoff"
    /\ phase' = "loop"
    /\ UNCHANGED <<max_retries, running, retry_count, wait_time, browser, pending,
                   seen, calculator, store, api>>

\* stop(), called from outside while the collection call is in progress.
Stop ==
    /\ phase \in Active
    /\ running' = FALSE
    /\ seen' = [seen EXCEPT !.stopped = IF @ = "no" THEN phase ELSE @]
    /\ UNCHANGED <<max_retries, retry_count, wait_time, browser, phase, pending, calculator, store, api>>

\* No analysis is in progress while the collector is observed.
CalculatorAtRest ==
    /\ thresholds = DefaultThresholds
    /\ multipliers = <<>>
    /\ pc = "idle"
    /\ scan = NoScan
    /\ result = NoResult

CollectorInit ==
    /\ CalculatorAtRest
    /\ NothingStored
    /\ \E m \in 0..MaxRetries : Constructed(m)

\* The steps of the collection call itself.
Collect ==
    \/ LoopTest
    \/ LaunchBrowser
    \/ LoadPage
    \/ Monitor
    \/ CloseBrowser
    \/ HandleFailure
    \/ BackoffSleep

CollectorNext ==
    \/ Run
    \/ LoopTest
    \/ LaunchBrowser
    \/ LoadPage
    \/ Monitor
    \/ CloseBrowser
    \/ HandleFailure
    \/ BackoffSleep
    \/ Stop

\* The event loop resumes the call whenever what it awaits has completed.
CollectorSpec == CollectorInit /\ [][CollectorNext]_vars /\ WF_vars(Collect)

-----------------------------------------------------------------------------
(* get_distribution, with the collector storing rounds meanwhile *)

MaxRows == 3

\* The round ids of the rows the table may hold.
RowIds == {"round_" \o ToString(i) : i \in 1..MaxRows}

\* Multipliers the collector stores: any float > 0 that a message carries.
\* 0.5, 1.0, 1.005, 1.5, 1.505, 2.0, 100.0, 100.005, 250.0.
StoredMultipliers ==
    {X(50), X(100), X(100) + 500, X(150), X(150) + 500, X(200),
     X(10000), X(10000) + 500, X(25000)}

\* The tables over the rows in S.
TablesOver(S) ==
    [S -> {[crash_multiplier |-> x, origin |-> Earlier] : x \in StoredMultipliers}]

\* total = (SELECT COUNT(*) FROM spacexy_rounds) or 1
DistTotal ==
    /\ dist.at \in {"idle", "returned"}
    /\ dist' = [at |-> "bucket",
                total |-> IF Cardinality(DOMAIN rows) = 0 THEN 1
                          ELSE Cardinality(DOMAIN rows),
                buckets |-> <<>>]
    /\ UNCHANGED <<calculator, collector, store>>

\* One pass of `for name, condition in DISTRIBUTION_BUCKETS`: the count query
\* and round((count / total) * 100, 2); after the last bucket the list is
\* returned.
DistBucket ==
    /\ dist.at = "bucket"
    /\ LET b == DISTRIBUTION_BUCKETS[Len(dist.buckets) + 1]
           count == CountRowsIn(rows, b)
           entry == [range |-> b.range, count |-> count,
                     percentage |-> Rate(count, dist.total, PctScale \div 100)]
       IN  dist' = [dist EXCEPT
                        !.buckets = Append(@, entry),
                        !.at = IF Len(dist.buckets) + 1 = Len(DISTRIBUTION_BUCKETS)
                               THEN "returned" ELSE "bucket"]
    /\ UNCHANGED <<calculator, collector, store>>

\* A save_round of the collector commits a new round while the request's
\* queries are under way.
CollectorCommits ==
    /\ dist.at = "bucket"
    /\ \E id \in RowIds \ DOMAIN rows, x \in StoredMultipliers :
           rows' = rows @@ OneRow(id, x, Earlier)
    /\ UNCHANGED <<calculator, collector, rounds_collected, tasks, calls, outcome, dist>>

DistributionInit ==
    /\ CalculatorAtRest
    /\ Constructed(DefaultMaxRetries)
    /\ StoreAtRest
    /\ rows \in UNION {TablesOver(S) : S \in SUBSET RowIds}
    /\ dist = NoRequest

DistributionNext ==
    \/ DistTotal
    \/ DistBucket
    \/ CollectorCommits

DistributionSpec == DistributionInit /\ [][DistributionNext]_vars

-----------------------------------------------------------------------------
(* The collector storing rounds *)

\* The database file holds nothing, or a round stored by an earlier run.
StoreInit ==
    /\ CalculatorAtRest
    /\ Constructed(DefaultMaxRetries)
    /\ StoreAtRest
    /\ rows \in {<<>>, OneRow("r1", X(250), Earlier)}
    /\ dist = NoRequest

StoreNext ==
    \/ ParseWsMessage
    \/ SaveRoundCall
    \/ GenerateTestRound
    \/ SaveValidate
    \/ SaveInsert
    \/ SaveCount

StoreSpec == StoreInit /\ [][StoreNext]_vars

-----------------------------------------------------------------------------
(* The calculator and its callers *)

\* CrashGameCalculator(thresholds) is constructed; a caller holds a window of
\* outcomes.
Init ==
    /\ thresholds \in ThresholdSets
    /\ multipliers \in MultiplierSeqs
    /\ pc = "idle"
    /\ scan = NoScan
    /\ result = NoResult
    /\ Constructed(DefaultMaxRetries)
    /\ NothingStored

\* Mutant of AnalyzeCrashes: the median is taken after multipliers.sort(), so
\* the caller's list is left sorted.
AnalyzeCrashesSortsInPlace ==
    /\ pc = "idle"
    /\ \E ts \in TimestampLists(Len(multipliers)) :
          result' = [op |-> "analyze_crashes", args |-> [timestamps |-> ts],
                     value |-> analyze_crashes(thresholds, multipliers, ts)]
    /\ multipliers' = SortAsc(multipliers)
    /\ UNCHANGED <<thresholds, pc, scan, collector, store, api>>

AnalyzeCrashes ==
    /\ pc = "idle"
    /\ \E ts \in TimestampLists(Len(multipliers)) :
          result' = [op |-> "analyze_crashes", args |-> [timestamps |-> ts],
                     value |-> analyze_crashes(thresholds, multipliers, ts)]
    /\ UNCHANGED <<thresholds, multipliers, pc, scan, collector, store, api>>

QuickCrashAlert ==
    /\ pc = "idle"
    /\ result' = [op |-> "calculate_quick_crash_alert", args |-> <<>>,
                  value |-> calculate_quick_crash_alert(thresholds, multipliers)]
    /\ UNCHANGED <<thresholds, multipliers, pc, scan, collector, store, api>>

TrackMoons ==
    /\ pc = "idle"
    /\ \E ts \in TimestampLists(Len(multipliers)) :
          result' = [op |-> "track_moons", args |-> [timestamps |-> ts],
                     value |-> track_moons(thresholds, multipliers, ts)]
    /\ UNCHANGED <<thresholds, multipliers, pc, scan, collector, store, api>>

OptimizeCashout ==
    /\ pc = "idle"
    /\ \E targets \in TargetLists :
          result' = [op |-> "optimize_cashout", args |-> [targets |-> targets],
                     value |-> optimize_cashout(multipliers, targets)]
    /\ UNCHANGED <<thresholds, multipliers, pc, scan, collector, store, api>>

HourlyPatterns ==
    /\ pc = "idle"
    /\ \E step \in ClockSteps :
          LET ts == Clock(Len(multipliers), step)
          IN  result' = [op |-> "analyze_hourly_patterns", args |-> [timestamps |-> ts],
                         value |-> analyze_hourly_patterns(Zip(multipliers, ts))]
    /\ UNCHANGED <<thresholds, multipliers, pc, scan, collector, store, api>>

\* calculate_streaks up to the start of the history loop.
StreakStart ==
    /\ pc = "idle"
    /\ \E threshold \in StreakThresholds : scan' = ScanStart(multipliers, threshold)
    /\ pc' = "streak_scan"
    /\ result' = NoResult
    /\ UNCHANGED <<thresholds, multipliers, collector, store, api>>

\* One iteration of the history loop.
StreakStep ==
    /\ pc = "streak_scan"
    /\ scan.i < Len(multipliers)
    /\ scan' = ScanStep(scan, multipliers[scan.i + 1])
    /\ UNCHANGED <<thresholds, multipliers, pc, result, collector, store, api>>

\* The loop is exhausted: build and return the two dictionaries.
StreakReturn ==
    /\ pc = "streak_scan"
    /\ scan.i = Len(multipliers)
    /\ result' = [op |-> "calculate_streaks", args |-> [threshold |-> scan.threshold],
                  value |-> StreakResult(scan)]
    /\ pc' = "idle"
    /\ scan' = NoScan
    /\ UNCHANGED <<thresholds, multipliers, collector, store, api>>

Next ==
    \/ AnalyzeCrashes
    \/ QuickCrashAlert
    \/ TrackMoons
    \/ OptimizeCashout
    \/ HourlyPatterns
    \/ StreakStart
    \/ StreakStep
    \/ StreakReturn

Spec == Init /\ [][Next]_vars

-----------------------------------------------------------------------------
(* Properties *)

IsResultOf(op) == result.op = op

\* The quick-crash alert fragment most recently returned.
Alert == result.value

\* C1 (as stated): consecutive_quick_crashes is at most min(n, last_10_quick_crashes),
\* and is 0 whenever the element at index 0 is not below the quick-crash threshold.
C1_RunWithinLast10 ==
    IsResultOf("calculate_quick_crash_alert") =>
        /\ Alert.consecutive_quick_crashes
               <= Min(Len(multipliers), Alert.last_10_quick_crashes)
        /\ (multipliers = <<>> \/ multipliers[1] >= thresholds.quick_crash)
               => Alert.consecutive_quick_crashes = 0

\* C1 (amended): consecutive_quick_crashes is at most n; capped at 10 it is at
\* most last_10_quick_crashes (a run longer than the 10-window exceeds the
\* window's count); and it is 0 whenever the element at index 0 is not below
\* the quick-crash threshold.
C1_RunBound ==
    IsResultOf("calculate_quick_crash_alert") =>
        /\ Alert.consecutive_quick_crashes <= Len(multipliers)
        /\ Min(Alert.consecutive_quick_crashes, 10) <= Alert.last_10_quick_crashes
        /\ (multipliers = <<>> \/ multipliers[1] >= thresholds.quick_crash)
               => Alert.consecutive_quick_crashes = 0

\* A run of 11 quick crashes has been analysed: the run exceeds the window count.
C1_Witness ==
    /\ IsResultOf("calculate_quick_crash_alert")
    /\ Alert.consecutive_quick_crashes = 11
    /\ Alert.last_10_quick_crashes = 10

\* The crash-analysis fragment most recently returned (not an exception).
IsAnalysis ==
    /\ IsResultOf("analyze_crashes")
    /\ "total_rounds" \in DOMAIN result.value

Analysis == result.value

\* C2 (as stated): for a non-empty sequence and strictly increasing thresholds,
\* instant <= quick <= early and moon <= mega <= huge <= big <= great <= good
\* on the reported (rounded) rates.
C2_RatesNested ==
    (IsAnalysis /\ multipliers # <<>> /\ StrictlyIncreasing(thresholds)) =>
        /\ Analysis.instant_crash_rate <= Analysis.quick_crash_rate
        /\ Analysis.quick_crash_rate <= Analysis.early_crash_rate
        /\ Analysis.moon_rate <= Analysis.mega_win_rate
        /\ Analysis.mega_win_rate <= Analysis.huge_win_rate
        /\ Analysis.huge_win_rate <= Analysis.big_win_rate
        /\ Analysis.big_win_rate <= Analysis.great_round_rate
        /\ Analysis.great_round_rate <= Analysis.good_round_rate

\* C2 (amended): for a non-empty sequence and strictly increasing thresholds,
\* instant <= quick <= early and mega <= huge <= big <= great <= good on the
\* reported rates; moon_rate, reported to four decimals, exceeds the
\* two-decimal mega_win_rate by at most 0.005.
C2_RatesNestedUpToPrecision ==
    (IsAnalysis /\ multipliers # <<>> /\ StrictlyIncreasing(thresholds)) =>
        /\ Analysis.instant_crash_rate <= Analysis.quick_crash_rate
        /\ Analysis.quick_crash_rate <= Analysis.early_crash_rate
        /\ Analysis.moon_rate <= Analysis.mega_win_rate + (PctScale \div 200)
        /\ Analysis.mega_win_rate <= Analysis.huge_win_rate
        /\ Analysis.huge_win_rate <= Analysis.big_win_rate
        /\ Analysis.big_win_rate <= Analysis.great_round_rate
        /\ Analysis.great_round_rate <= Analysis.good_round_rate

\* One moon among three outcomes: moon_rate 33.3333 against mega_win_rate 33.33,
\* with the other rates strictly between 0 and 100.
C2_Witness ==
    /\ IsAnalysis
    /\ StrictlyIncreasing(thresholds)
    /\ Len(multipliers) = 3
    /\ Analysis.moon_rate > Analysis.mega_win_rate
    /\ Analysis.good_round_rate < 100 * PctScale
    /\ Analysis.instant_crash_rate > 0
    /\ Analysis.instant_crash_rate < Analysis.early_crash_rate

\* C3: during the history scan of calculate_streaks, and when it ends, the
\* lengths pushed to below_streaks and above_streaks plus the open run
\* (current_below + current_above, at most one of them non-zero) add up to the
\* number of elements scanned, which is n once the loop is exhausted.
C3_RunsPartitionScanned ==
    pc = "streak_scan" =>
        /\ SumSeq(scan.below_streaks) + SumSeq(scan.above_streaks)
               + scan.current_below + scan.current_above = scan.i
        /\ scan.current_below = 0 \/ scan.current_above = 0
        /\ scan.i <= Len(multipliers)

\* A finished scan that closed runs of both kinds and still has one open.
C3_Witness ==
    /\ pc = "streak_scan"
    /\ scan.i = Len(multipliers)
    /\ scan.below_streaks # <<>>
    /\ scan.above_streaks # <<>>
    /\ scan.current_below + scan.current_above > 0

\* The cashout fragments most recently returned.
Fragments == result.value

WinsFor(target) == Cardinality({i \in DOMAIN multipliers : multipliers[i] >= target})

\* ev > 0.9 for a target reached by `wins` of n outcomes:
\* wins/n * t - (1 - wins/n) > 0.9, i.e. 10 * wins * (t + 1) > 19 * n.
EvAbove09(wins, n, target) == 10 * wins * (target + Scale) > 19 * n * Scale

\* p >= 30 with p = 100 * wins / n.
RateAtLeast30(wins, n) == 10 * wins >= 3 * n

C5_WinRateRange ==
    IsResultOf("optimize_cashout") =>
        \A k \in DOMAIN Fragments :
            /\ Fragments[k].win_rate >= 0
            /\ Fragments[k].win_rate <= 100 * PctScale

\* One call returned a target every outcome reaches and one none reaches.
C5_Witness ==
    /\ IsResultOf("optimize_cashout")
    /\ \E a, b \in DOMAIN Fragments :
          /\ Fragments[a].win_rate = 100 * PctScale
          /\ Fragments[b].win_rate = 0

\* round(x, 4) of a multiplier.
Round4(x) == Round(x, 1, Scale \div 10000)

\* Every multiplier of the sequence is positive.
Positive(ms) == \A i \in DOMAIN ms : ms[i] > 0

\* C6 (as stated): for a non-empty sequence of positive multipliers,
\* highest_crash >= average_crash >= lowest_crash and lowest_crash > 0, with
\* average_crash rounded to 4 decimals and the extremes unrounded.
C6_AverageBetweenExtremes ==
    (IsAnalysis /\ multipliers # <<>> /\ Positive(multipliers)) =>
        /\ Analysis.highest_crash >= Analysis.average_crash
        /\ Analysis.average_crash >= Analysis.lowest_crash
        /\ Analysis.lowest_crash > 0

\* C6 (amended): for a non-empty sequence of positive multipliers,
\* lowest_crash > 0, highest_crash >= lowest_crash, and average_crash lies
\* between lowest_crash and highest_crash each rounded to 4 decimals; so
\* highest_crash >= average_crash >= lowest_crash whenever the extremes have
\* at most four decimals.
C6_AverageBetweenRoundedExtremes ==
    (IsAnalysis /\ multipliers # <<>> /\ Positive(multipliers)) =>
        /\ Round4(Analysis.highest_crash) >= Analysis.average_crash
        /\ Analysis.average_crash >= Round4(Analysis.lowest_crash)
        /\ Analysis.highest_crash >= Analysis.lowest_crash
        /\ Analysis.lowest_crash > 0
        /\ (Round4(Analysis.highest_crash) = Analysis.highest_crash
            /\ Round4(Analysis.lowest_crash) = Analysis.lowest_crash)
               => /\ Analysis.highest_crash >= Analysis.average_crash
                  /\ Analysis.average_crash >= Analysis.lowest_crash

\* Several outcomes of 1.00001 have been analysed: the reported average, 1.0,
\* is below the unrounded lowest_crash and equal to its rounding.
C6_Witness ==
    /\ IsAnalysis
    /\ Len(multipliers) >= 2
    /\ Analysis.lowest_crash = X(100) + 1
    /\ Analysis.average_crash < Analysis.lowest_crash
    /\ Analysis.average_crash = Round4(Analysis.lowest_crash)

ZeroSummary == [max |-> 0, average |-> 0, total |-> 0]

\* C7: called with an empty sequence, no operation raises and each returns
\* its default: analyze_crashes total_rounds 0 and every numeric field 0;
\* calculate_quick_crash_alert all counts 0 and level low; track_moons
\* total_moons 0, rounds_since_moon 0, moon_probability 0; optimize_cashout an
\* empty list; calculate_streaks type above, count 0 and an all-zero history;
\* analyze_hourly_patterns two empty lists.
C7_EmptyDefaults ==
    multipliers = <<>> =>
        /\ IsResultOf("analyze_crashes") =>
               /\ IsAnalysis
               /\ \A f \in {"total_rounds", "average_crash", "median_crash",
                            "std_deviation", "instant_crash_rate", "quick_crash_rate",
                            "early_crash_rate", "good_round_rate", "great_round_rate",
                            "big_win_rate", "huge_win_rate", "mega_win_rate",
                            "moon_rate", "highest_crash", "lowest_crash"} :
                      result.value[f] = 0
        /\ IsResultOf("calculate_quick_crash_alert") =>
               /\ result.value.last_10_quick_crashes = 0
               /\ result.value.last_20_quick_crashes = 0
               /\ result.value.last_50_quick_crashes = 0
               /\ result.value.consecutive_quick_crashes = 0
               /\ result.value.alert_level = "low"
        /\ IsResultOf("track_moons") =>
               /\ result.value.total_moons = 0
               /\ result.value.rounds_since_moon = 0
               /\ result.value.moon_probability = 0
        /\ IsResultOf("optimize_cashout") => result.value = <<>>
        /\ IsResultOf("calculate_streaks") =>
               /\ result.value.current_streak.type = "above"
               /\ result.value.current_streak.count = 0
               /\ result.value.streak_history.below = ZeroSummary
               /\ result.value.streak_history.above = ZeroSummary
        /\ IsResultOf("analyze_hourly_patterns") =>
               /\ result.value.best = <<>>
               /\ result.value.worst = <<>>

\* calculate_streaks has returned for the empty sequence.
C7_Witness ==
    /\ multipliers = <<>>
    /\ IsResultOf("calculate_streaks")

\* The moon-tracker fragment most recently returned.
Moons == result.value

\* C8: with no multiplier at or above the moon threshold, track_moons returns
\* total_moons = 0, rounds_since_moon = n, and null last_moon_value,
\* last_moon_time and average_rounds_between_moons; with at least one moon,
\* rounds_since_moon is the smallest index i with multipliers[i] >= moon and
\* last_moon_value is multipliers[i].
C8_MoonTracker ==
    IsResultOf("track_moons") =>
        LET at == {i \in DOMAIN multipliers : multipliers[i] >= thresholds.moon}
        IN  IF at = {}
            THEN /\ Moons.total_moons = 0
                 /\ Moons.rounds_since_moon = Len(multipliers)
                 /\ Moons.last_moon_value = None
                 /\ Moons.last_moon_time = None
                 /\ Moons.average_rounds_between_moons = None
            ELSE \E i \in at :
                     /\ \A j \in at : i <= j
                     /\ Moons.rounds_since_moon = i - 1
                     /\ Moons.last_moon_value = Some(multipliers[i])

\* Two moons, the most recent of them not at index 0.
C8_Witness ==
    /\ IsResultOf("track_moons")
    /\ Moons.total_moons >= 2
    /\ Moons.rounds_since_moon >= 1
    /\ Moons.last_moon_value # None

ListedDefaults ==
    <<X(150), X(200), X(250), X(300), X(400), X(500), X(1000), X(2000), X(5000)>>

TargetsOf(fragments) == [k \in DOMAIN fragments |-> fragments[k].target_multiplier]

\* C9 (as stated): optimize_cashout called with targets=[] (or none) returns
\* exactly 9 fragments whose targets are 1.5, 2.0, 2.5, 3.0, 4.0, 5.0, 10.0,
\* 20.0, 50.0 in that order.
C9_DefaultTargets ==
    (IsResultOf("optimize_cashout") /\ result.args.targets = <<>>) =>
        /\ Len(Fragments) = 9
        /\ TargetsOf(Fragments) = ListedDefaults

\* C9 (amended): for a non-empty multiplier sequence, optimize_cashout called
\* with targets=[] (or none) returns exactly 9 fragments whose targets are the
\* default list in order; for an empty sequence it returns no fragment.
C9_DefaultTargetsNonEmpty ==
    (IsResultOf("optimize_cashout") /\ result.args.targets = <<>>) =>
        IF multipliers # <<>>
        THEN /\ Len(Fragments) = 9
             /\ TargetsOf(Fragments) = ListedDefaults
        ELSE Fragments = <<>>

\* The default list was applied to a non-empty sequence.
C9_Witness ==
    /\ IsResultOf("optimize_cashout")
    /\ result.args.targets = <<>>
    /\ multipliers # <<>>
    /\ Len(Fragments) = 9

\* The hours of day that have at least one observation in the last call.
ObservedHours ==
    {HourOf(result.args.timestamps[i]) : i \in DOMAIN result.args.timestamps}

\* The reported mean of hour h: the mean of its observations, to 4 decimals.
ReportedMean(h) ==
    LET at == {i \in DOMAIN multipliers : HourOf(result.args.timestamps[i]) = h}
        obs == [i \in 1..Cardinality(at) |->
                   multipliers[CHOOSE j \in at :
                       Cardinality({l \in at : l < j}) = i - 1]]
    IN  Round(SumSeq(obs), Cardinality(at), Scale \div 10000)

HoursIn(list) == {list[i].hour : i \in DOMAIN list}

\* C10: with k the number of hours of day that have an observation, best
\* holds exactly min(3, k) hours ordered by mean descending; worst is empty
\* when k < 3 and otherwise holds the 3 hours of lowest mean, lowest first; no
\* hour without observations is listed.
C10_BestWorstHours ==
    IsResultOf("analyze_hourly_patterns") =>
        LET best == result.value.best
            worst == result.value.worst
            k == Cardinality(ObservedHours)
        IN  /\ Len(best) = Min(3, k)
            /\ Cardinality(HoursIn(best)) = Len(best)
            /\ HoursIn(best) \subseteq ObservedHours
            /\ \A i \in DOMAIN best :
                   /\ best[i].average = ReportedMean(best[i].hour)
                   /\ best[i].rounds >= 1
                   /\ \A j \in DOMAIN best : i < j => best[i].average >= best[j].average
                   /\ \A h \in ObservedHours \ HoursIn(best) :
                          ReportedMean(h) <= best[i].average
            /\ Len(worst) = IF k < 3 THEN 0 ELSE 3
            /\ Cardinality(HoursIn(worst)) = Len(worst)
            /\ HoursIn(worst) \subseteq ObservedHours
            /\ \A i \in DOMAIN worst :
                   /\ worst[i].average = ReportedMean(worst[i].hour)
                   /\ worst[i].rounds >= 1
                   /\ \A j \in DOMAIN worst : i < j => worst[i].average <= worst[j].average
                   /\ \A h \in ObservedHours \ HoursIn(worst) :
                          ReportedMean(h) >= worst[i].average

\* Four or more hours have data, with different means among the best and among
\* the worst, and the two lists differ as sets.
C10_Witness ==
    /\ IsResultOf("analyze_hourly_patterns")
    /\ Cardinality(ObservedHours) >= 4
    /\ Len(result.value.best) = 3
    /\ Len(result.value.worst) = 3
    /\ result.value.best[1].average > result.value.best[3].average
    /\ result.value.worst[1].average < result.value.worst[3].average
    /\ HoursIn(result.value.best) # HoursIn(result.value.worst)

\* What operation op returns for threshold set t, sequence ms and the call's
\* other arguments args, as a function of these alone.
ValueOf(op, t, ms, args) ==
    CASE op = "analyze_crashes" -> analyze_crashes(t, ms, args.timestamps)
      [] op = "calculate_quick_crash_alert" -> calculate_quick_crash_alert(t, ms)
      [] op = "track_moons" -> track_moons(t, ms, args.timestamps)
      [] op = "optimize_cashout" -> optimize_cashout(ms, args.targets)
      [] op = "analyze_hourly_patterns" ->
             analyze_hourly_patterns(Zip(ms, args.timestamps))
      [] op = "calculate_streaks" -> calculate_streaks(ms, args.threshold)

AllPositive(t) == \A f \in DOMAIN t : t[f] > 0

\* C12: a threshold set with a non-positive value, or whose nine values are
\* not increasing from instant_crash to moon, is rejected when it is
\* constructed, so no operation of a calculator ever runs with such a set.
C12_ThresholdsValidated ==
    result.op # "none" => (AllPositive(thresholds) /\ StrictlyIncreasing(thresholds))

\* The call ended by raising instead of returning a fragment (analyze_crashes
\* is the only operation with a raising path).
Raised == result.op = "analyze_crashes" /\ "raised" \in DOMAIN result.value

\* A non-empty timestamp list shorter than the sequence was passed.
ShortTimestamps ==
    /\ result.op \in {"analyze_crashes", "track_moons"}
    /\ result.args.timestamps # None
    /\ Len(result.args.timestamps) < Len(multipliers)

\* C13: when a timestamp list shorter than the multiplier list is passed,
\* analyze_crashes and track_moons fail instead of returning a fragment
\* computed from the mismatched lists.
C13_ShortTimestampsRejected == ShortTimestamps => Raised

\* C14: when the sequence holds a multiplier <= 0, every operation fails
\* instead of returning a fragment; in particular no analysis of a non-empty
\* sequence reports lowest_crash <= 0.
C14_NonPositiveRejected ==
    /\ (result.op # "none" /\ ~Positive(multipliers)) => Raised
    /\ (IsAnalysis /\ multipliers # <<>>) => Analysis.lowest_crash > 0

\* C15: a non-null average_rounds_between_moons is non-negative and is the
\* mean distance in rounds between adjacent moon positions, to one decimal
\* (the distances between adjacent positions add up to the distance from the
\* first moon position to the last).
C15_AverageGapIsDistance ==
    (IsResultOf("track_moons") /\ Moons.average_rounds_between_moons # None) =>
        LET at == {i \in DOMAIN multipliers : multipliers[i] >= thresholds.moon}
            first == CHOOSE i \in at : \A j \in at : i <= j
            last == CHOOSE i \in at : \A j \in at : i >= j
            average == Moons.average_rounds_between_moons[1]
        IN  /\ Cardinality(at) >= 2
            /\ average >= 0
            /\ average = RoundHalfEven(10 * (last - first), Cardinality(at) - 1)

\* level is the one level the precedence table gives for (run, last10, last20).
LevelMatches(level, run, last10, last20) ==
    LET critical == run >= 5 \/ last10 >= 7
        high == run >= 3 \/ last10 >= 5
        medium == last10 >= 4 \/ last20 >= 10
    IN  /\ level \in {"critical", "high", "medium", "low"}
        /\ level = "critical" <=> critical
        /\ level = "high" <=> (~critical /\ high)
        /\ level = "medium" <=> (~critical /\ ~high /\ medium)
        /\ level = "low" <=> (~critical /\ ~high /\ ~medium)

\* C16: alert_level is critical iff run >= 5 or last10 >= 7; otherwise high
\* iff run >= 3 or last10 >= 5; otherwise medium iff last10 >= 4 or
\* last20 >= 10; otherwise low: for the counts of every alert returned, and
\* for every triple of counts the classification can be handed.
C16_AlertLevelPrecedence ==
    IsResultOf("calculate_quick_crash_alert") =>
        /\ LevelMatches(Alert.alert_level, Alert.consecutive_quick_crashes,
                        Alert.last_10_quick_crashes, Alert.last_20_quick_crashes)
        /\ \A run \in 0..8, last10 \in 0..10, last20 \in 0..20 :
               LevelMatches(AlertLevel(run, last10, last20), run, last10, last20)

\* The last test of the table decides: ten quick crashes among the last 20,
\* fewer than four among the last 10 and a run shorter than three.
C16_Witness ==
    /\ IsResultOf("calculate_quick_crash_alert")
    /\ Alert.alert_level = "medium"
    /\ Alert.last_20_quick_crashes >= 10
    /\ Alert.last_10_quick_crashes < 4
    /\ Alert.consecutive_quick_crashes < 3

\* C19: for k = 10, 20, 50 the last_k count is the number of elements below
\* the quick-crash threshold among the first min(n, k) elements; hence
\* last_10 <= last_20 <= last_50 <= n and last_k <= k.
C19_WindowCounts ==
    IsResultOf("calculate_quick_crash_alert") =>
        LET n == Len(multipliers)
            Within(k) ==
                Cardinality({i \in 1..Min(n, k) :
                                multipliers[i] < thresholds.quick_crash})
        IN  /\ Alert.last_10_quick_crashes = Within(10)
            /\ Alert.last_20_quick_crashes = Within(20)
            /\ Alert.last_50_quick_crashes = Within(50)
            /\ Alert.last_10_quick_crashes <= Alert.last_20_quick_crashes
            /\ Alert.last_20_quick_crashes <= Alert.last_50_quick_crashes
            /\ Alert.last_50_quick_crashes <= n
            /\ Alert.last_10_quick_crashes <= 10
            /\ Alert.last_20_quick_crashes <= 20
            /\ Alert.last_50_quick_crashes <= 50

\* More than 50 outcomes, with quick crashes inside the last 50 but outside
\* the last 20, and more quick crashes behind the last 50.
C19_Witness ==
    /\ IsResultOf("calculate_quick_crash_alert")
    /\ Len(multipliers) > 50
    /\ Alert.last_20_quick_crashes < Alert.last_50_quick_crashes
    /\ Alert.last_50_quick_crashes < CountBelow(multipliers, thresholds.quick_crash)

\* C20: consecutive_quick_crashes is the length of the longest prefix whose
\* elements are all strictly below the quick-crash threshold: an element at
\* or above the threshold ends the run; for [1.0, 1.2, 1.8, 3.5, 1.1] and
\* threshold 1.5 the run is 2.
C20_RunIsLongestPrefix ==
    IsResultOf("calculate_quick_crash_alert") =>
        LET run == Alert.consecutive_quick_crashes
        IN  /\ run \in 0..Len(multipliers)
            /\ \A i \in 1..run : multipliers[i] < thresholds.quick_crash
            /\ run < Len(multipliers) =>
                   multipliers[run + 1] >= thresholds.quick_crash
            /\ (multipliers = ExampleWindow /\ thresholds.quick_crash = X(150))
                   => run = 2

\* A run of quick crashes ended by an outcome equal to the threshold.
C20_Witness ==
    /\ IsResultOf("calculate_quick_crash_alert")
    /\ Alert.consecutive_quick_crashes >= 1
    /\ Alert.consecutive_quick_crashes < Len(multipliers)
    /\ multipliers[Alert.consecutive_quick_crashes + 1] = thresholds.quick_crash

\* The collection call has ended.
Ended == phase \in {"returned", "raised"}

\* C17 (as stated): the call raises ConnectionError exactly when max_retries
\* consecutive attempts have failed since the last page load that succeeded:
\* it has raised only with that many failures and has returned only with a
\* different number; no attempt is in progress and no backoff sleep is taken
\* once that many have failed.
C17_RaisesExactlyAtMaxRetries ==
    /\ phase = "raised" => seen.failed = max_retries
    /\ phase = "returned" => seen.failed # max_retries
    /\ phase \in {"launch", "goto", "monitor"} => seen.failed < max_retries
    /\ phase = "backoff" => seen.failed < max_retries

\* C17 (amended): for max_retries >= 1 the call raises ConnectionError exactly
\* when max_retries consecutive attempts have failed since the last page load
\* that succeeded: it has raised only with that many failures, it has
\* returned only with fewer, and once that many have failed it is on its way
\* to raising, with no attempt in progress and no backoff sleep.  For
\* max_retries = 0 the loop body never runs: the call returns at once, with
\* no attempt made and nothing raised.
C17_RaisesAtMaxRetriesWhenPositive ==
    /\ phase = "raised" => (max_retries >= 1 /\ seen.failed = max_retries)
    /\ phase = "returned" => (max_retries = 0 \/ seen.failed < max_retries)
    /\ (max_retries >= 1 /\ seen.failed >= max_retries) =>
           /\ seen.failed = max_retries
           /\ phase \in {"close", "except", "raised"}
    /\ phase \in {"launch", "goto", "monitor", "backoff"} => seen.failed < max_retries
    /\ phase \in {"backoff", "raised"} =>
           (retry_count = seen.failed /\ wait_time = 2 ^ (retry_count - 1))
    /\ max_retries = 0 => (phase \in {"idle", "loop", "returned"} /\ seen.attempts = 0)

\* ConnectionError has been raised after two or more failed attempts, the
\* last of them followed by no sleep.
C17_Witness ==
    /\ phase = "raised"
    /\ max_retries >= 2
    /\ seen.attempts = max_retries
    /\ seen.failed = max_retries

Side(m, threshold) == IF m < threshold THEN "below" ELSE "above"

\* The current-streak fragment most recently returned.
CurrentStreak == result.value.current_streak

\* C21: the current streak's type is below iff the sequence is non-empty and
\* element 0 is strictly below the threshold, otherwise above; count is the
\* length of the maximal prefix whose elements are all on that side (>=
\* counts as above); count >= 1 for a non-empty sequence, and the empty
\* sequence gives type above with count 0.
C21_CurrentStreak ==
    IsResultOf("calculate_streaks") =>
        LET th == result.args.threshold
            n == Len(multipliers)
            count == CurrentStreak.count
        IN  /\ CurrentStreak.type \in {"below", "above"}
            /\ CurrentStreak.type = "below" <=> (n > 0 /\ multipliers[1] < th)
            /\ CurrentStreak.threshold = th
            /\ count \in 0..n
            /\ \A i \in 1..count : Side(multipliers[i], th) = CurrentStreak.type
            /\ count < n => Side(multipliers[count + 1], th) # CurrentStreak.type
            /\ n > 0 => count >= 1
            /\ n = 0 => (CurrentStreak.type = "above" /\ count = 0)

\* A run above the threshold whose last element equals the threshold, with an
\* element below the threshold behind it.
C21_Witness ==
    /\ IsResultOf("calculate_streaks")
    /\ CurrentStreak.type = "above"
    /\ CurrentStreak.count >= 2
    /\ CurrentStreak.count < Len(multipliers)
    /\ multipliers[CurrentStreak.count] = result.args.threshold

\* The positions at which a maximal run of one side of th starts.
RunStarts(ms, th) ==
    {i \in DOMAIN ms : i = 1 \/ Side(ms[i], th) # Side(ms[i - 1], th)}

\* The elements of a finite set of integers, ascending.
Ascending(S) ==
    [k \in 1..Cardinality(S) |->
        CHOOSE x \in S : Cardinality({y \in S : y < x}) = k - 1]

\* The lengths, in scan order, of the maximal runs on `side` that are followed
\* by another run (every run but the one holding the oldest element).
BoundedRuns(ms, th, side) ==
    LET starts == RunStarts(ms, th)
        NextStart(s) == CHOOSE u \in starts :
                            u > s /\ \A v \in starts : v > s => u <= v
        bounded == {s \in starts : Side(ms[s], th) = side /\ \E u \in starts : u > s}
        order == Ascending(bounded)
    IN  [k \in DOMAIN order |-> NextStart(order[k]) - order[k]]

\* The streak-history fragment most recently returned.
History == result.value.streak_history

\* C22: the run still open when the scan of calculate_streaks reaches the end
\* of the sequence is never pushed: for a non-empty sequence of r maximal
\* runs, the lists pushed by the exhausted loop are exactly the lengths of the
\* first r - 1 runs in scan order, side by side; the returned history
\* summarises those lists, below.total + above.total = r - 1, and a sequence
\* all on one side yields an all-zero history.
C22_OpenRunNotPushed ==
    /\ (pc = "streak_scan" /\ scan.i = Len(multipliers) /\ multipliers # <<>>) =>
           /\ scan.below_streaks = BoundedRuns(multipliers, scan.threshold, "below")
           /\ scan.above_streaks = BoundedRuns(multipliers, scan.threshold, "above")
           /\ Len(scan.below_streaks) + Len(scan.above_streaks)
                  = Cardinality(RunStarts(multipliers, scan.threshold)) - 1
    /\ (IsResultOf("calculate_streaks") /\ multipliers # <<>>) =>
           LET th == result.args.threshold
               r == Cardinality(RunStarts(multipliers, th))
               Summarised(summary, runs) ==
                   /\ summary.total = Len(runs)
                   /\ summary.max = IF runs = <<>> THEN 0 ELSE SeqMax(runs)
                   /\ summary.average =
                          IF runs = <<>> THEN 0
                          ELSE RoundHalfEven(100 * SumSeq(runs), Len(runs))
           IN  /\ History.below.total + History.above.total = r - 1
               /\ Summarised(History.below, BoundedRuns(multipliers, th, "below"))
               /\ Summarised(History.above, BoundedRuns(multipliers, th, "above"))
               /\ r = 1 => (History.below = ZeroSummary /\ History.above = ZeroSummary)

\* Three runs were scanned and two pushed: the oldest, longer than both, is
\* in neither list.
C22_Witness ==
    /\ IsResultOf("calculate_streaks")
    /\ Cardinality(RunStarts(multipliers, result.args.threshold)) = 3
    /\ History.below.total + History.above.total = 2
    /\ Len(multipliers) - CurrentStreak.count - Max(History.below.max, History.above.max)
           > Max(History.below.max, History.above.max)


\* C23: for a non-empty sequence holding a multiplier at or above the moon
\* threshold, analyze_crashes reports rounds_since_moon = the smallest index i
\* with multipliers[i] >= moon, whether or not timestamps are passed, and
\* last_moon = timestamps[i] when one timestamp per multiplier is passed.
C23_RoundsSinceMoonReported ==
    (/\ IsResultOf("analyze_crashes")
     /\ MoonPositions(multipliers, thresholds.moon) # {}
     /\ Len(result.args.timestamps) \in {0, Len(multipliers)}) =>
        LET i == FirstPosition(MoonPositions(multipliers, thresholds.moon))
        IN  /\ IsAnalysis
            /\ Analysis.rounds_since_moon = Some(i - 1)
            /\ result.args.timestamps # None =>
                   Analysis.last_moon = Some(result.args.timestamps[i])

\* Lists up to this length are compared under every permutation.
MaxPermLen == 4

\* The reorderings a list of n rounds is compared under: every permutation of
\* a short list; of a longer one the reversal, the rotation by one and the
\* exchange of its ends.
Reorderings(n) ==
    IF n <= MaxPermLen THEN Permutations(1..n)
    ELSE {[i \in 1..n |-> n + 1 - i],
          [i \in 1..n |-> (i % n) + 1],
          [i \in 1..n |-> IF i = 1 THEN n ELSE IF i = n THEN 1 ELSE i]}

Permuted(rounds, p) == [i \in DOMAIN rounds |-> rounds[p[i]]]

\* The (multiplier, timestamp) pairs of the last analyze_hourly_patterns call.
RoundsAnalysed == Zip(multipliers, result.args.timestamps)

\* C24: analyze_hourly_patterns returns, for a reordering of its list of
\* (multiplier, timestamp) pairs, the same best and worst lists: the same
\* hours in the same positions with the same means, rounds counts and big-win
\* rates, also when several hours have the same mean.
C24_HourlyOrderInsensitive ==
    IsResultOf("analyze_hourly_patterns") =>
        \A p \in Reorderings(Len(multipliers)) :
            analyze_hourly_patterns(Permuted(RoundsAnalysed, p)) = result.value

\* Two hours with the same mean lead the best list, each with several rounds
\* of different multipliers.
C24_Witness ==
    /\ IsResultOf("analyze_hourly_patterns")
    /\ Len(result.value.best) >= 2
    /\ result.value.best[1].average = result.value.best[2].average
    /\ result.value.best[1].hour # result.value.best[2].hour
    /\ result.value.best[1].rounds >= 2
    /\ result.value.best[1].big_win_rate \notin {0, 100 * PctScale}

\* The number of rounds of the last hourly call that fall in hour h, and how
\* many of them are at 10.0 or more.
RoundsIn(h) ==
    Cardinality({i \in DOMAIN multipliers : HourOf(result.args.timestamps[i]) = h})

BigWinsIn(h) ==
    Cardinality({i \in DOMAIN multipliers :
                    /\ HourOf(result.args.timestamps[i]) = h
                    /\ multipliers[i] >= X(1000)})

\* C25: no operation divides by zero.  Every call returns (the one raising
\* path is the IndexError of analyze_crashes); optimize_cashout reports
\* risk_reward_ratio = 0 and win_rate = 0 for a target no outcome reaches
\* and t * p / 100, to 4 decimals, for one that wins of n outcomes reach
\* (p = 100 * wins / n); track_moons reports moon_probability = 0 for the
\* empty sequence; analyze_crashes reports std_deviation = 0 for a
\* one-element sequence; analyze_hourly_patterns lists only hours with at
\* least one round, each with the rate of its own rounds.
C25_NoDivisionByZero ==
    /\ Raised => result.value.raised = "IndexError"
    /\ IsResultOf("optimize_cashout") =>
           \A k \in DOMAIN Fragments :
               LET f == Fragments[k]
                   w == WinsFor(f.target_multiplier)
               IN  /\ "risk_reward_ratio" \in DOMAIN f
                   /\ w = 0 => (f.win_rate = 0 /\ f.risk_reward_ratio = 0)
                   /\ w > 0 => f.risk_reward_ratio =
                                   Round(f.target_multiplier * w, Len(multipliers),
                                         Scale \div 10000)
    /\ (IsResultOf("track_moons") /\ multipliers = <<>>) => Moons.moon_probability = 0
    /\ (IsAnalysis /\ Len(multipliers) = 1) => Analysis.std_deviation = 0
    /\ IsResultOf("analyze_hourly_patterns") =>
           \A list \in {result.value.best, result.value.worst} :
               \A i \in DOMAIN list :
                   /\ list[i].rounds = RoundsIn(list[i].hour)
                   /\ list[i].rounds >= 1
                   /\ list[i].big_win_rate =
                          Rate(BigWinsIn(list[i].hour), list[i].rounds, PctScale \div 100)

\* One call returned a target that no outcome reaches, with ratio 0, next to
\* a target that some but not all outcomes reach.
C25_Witness ==
    /\ IsResultOf("optimize_cashout")
    /\ \E a, b \in DOMAIN Fragments :
          /\ WinsFor(Fragments[a].target_multiplier) = 0
          /\ Fragments[a].risk_reward_ratio = 0
          /\ WinsFor(Fragments[b].target_multiplier) \in 1..(Len(multipliers) - 1)
          /\ Fragments[b].risk_reward_ratio > 0

\* No save_round coroutine is in progress.
Quiescent == tasks = EmptyBag

\* The rounds this collector has stored (not those of an earlier run).
StoredByCollector == {id \in DOMAIN rows : rows[id].origin # Earlier}

\* C26: save_round returns True, and increments rounds_collected, only when
\* its row was stored as a new row; a call whose round_id is already stored
\* returns False and leaves the counter as it was; so once no call is in
\* progress, rounds_collected is the number of distinct rounds this collector
\* has stored.
C26_CountsNewRowsOnly ==
    /\ outcome.returned = "True" => outcome.stored
    /\ outcome.counted => outcome.stored
    /\ outcome.existed => (outcome.returned = "False" /\ ~outcome.counted)
    /\ Quiescent => rounds_collected = Cardinality(StoredByCollector)

\* The step ends a save_round call by raising ValueError.
RaisesValueError ==
    /\ BagCardinality(tasks') < BagCardinality(tasks)
    /\ outcome'.returned = "ValueError"

\* C27: every stored round has crash multiplier > 0, whatever messages
\* parse_ws_message handles and whatever save_round and generate_test_data
\* calls are made: parse_ws_message creates no save for a multiplier <= 0;
\* save_round raises ValueError exactly for a multiplier <= 0, and that step
\* writes no row and leaves rounds_collected as it was.
C27_StoredMultipliersPositive ==
    /\ [](\A id \in DOMAIN rows : GtZero(rows[id].crash_multiplier))
    /\ [](\A task \in BagToSet(tasks) :
              /\ FromWs(task.origin) => ~LeZero(task.multiplier)
              /\ task.origin = TestData => GtZero(task.multiplier)
              /\ task.at # "validate" => ~LeZero(task.multiplier))
    /\ [](outcome.returned # "none" =>
              (outcome.returned = "ValueError" <=> LeZero(outcome.multiplier)))
    /\ [][RaisesValueError =>
              (rows' = rows /\ rounds_collected' = rounds_collected)]_vars

\* save_round has raised ValueError for a multiplier below zero after a round
\* from a WebSocket message was stored and counted.
C27_Witness ==
    /\ outcome.returned = "ValueError"
    /\ outcome.multiplier < 0
    /\ rounds_collected = 1
    /\ \E id \in DOMAIN rows : FromWs(rows[id].origin)

\* The message is a round-end message: a dict whose type (the first present
\* of type, t, action, event, messageType, cmd) is, lower-cased, one of
\* END_MESSAGE_TYPES.
IsRoundEnd(msg) ==
    /\ IsDict(msg)
    /\ extract_message_type(msg.dict) # None
    /\ Lower(extract_message_type(msg.dict)[1]) \in END_MESSAGE_TYPES

\* C28: parse_ws_message creates a save only for a round-end message, so
\* every round stored from a WebSocket message comes from one; a message
\* with a multiplier field and no type field stores nothing.
C28_OnlyRoundEndStored ==
    /\ \A task \in BagToSet(tasks) : FromWs(task.origin) => IsRoundEnd(task.origin)
    /\ \A id \in DOMAIN rows : FromWs(rows[id].origin) => IsRoundEnd(rows[id].origin)

\* C29: for one multiplier sequence and a timestamp list of the same length,
\* analyze_crashes and track_moons agree on the last moon when the sequence
\* has one (the same rounds_since_moon and the same timestamp); when it has
\* none, analyze_crashes reports rounds_since_moon null and track_moons
\* reports rounds_since_moon = n.
C29_MoonScansAgree ==
    (/\ result.op \in {"analyze_crashes", "track_moons"}
     /\ Len(result.args.timestamps) = Len(multipliers)) =>
        LET ts == result.args.timestamps
            a == IF IsResultOf("analyze_crashes") THEN result.value
                 ELSE analyze_crashes(thresholds, multipliers, ts)
            m == IF IsResultOf("track_moons") THEN result.value
                 ELSE track_moons(thresholds, multipliers, ts)
        IN  /\ "rounds_since_moon" \in DOMAIN a
            /\ IF MoonPositions(multipliers, thresholds.moon) # {}
               THEN /\ a.rounds_since_moon = Some(m.rounds_since_moon)
                    /\ a.last_moon # None
                    /\ a.last_moon = m.last_moon_time
               ELSE /\ a.rounds_since_moon = None
                    /\ a.last_moon = None
                    /\ m.last_moon_time = None
                    /\ m.rounds_since_moon = Len(multipliers)

\* analyze_crashes has returned for a sequence with two moons, the first of
\* them not at index 0, and one timestamp per multiplier.
C29_Witness ==
    /\ IsAnalysis
    /\ Len(result.args.timestamps) = Len(multipliers)
    /\ Cardinality(MoonPositions(multipliers, thresholds.moon)) >= 2
    /\ Analysis.rounds_since_moon # None
    /\ Analysis.rounds_since_moon[1] > 0

\* The buckets whose condition the multiplier x satisfies.
BucketsOf(x) ==
    {k \in DOMAIN DISTRIBUTION_BUCKETS : InBucket(DISTRIBUTION_BUCKETS[k], x)}

\* C30: the nine DISTRIBUTION_BUCKETS partition the stored rounds: every
\* stored multiplier satisfies exactly one bucket condition, so the counts
\* get_distribution returns sum to the number of rounds and the percentages
\* sum to 100 when at least one round exists; with no rounds every bucket
\* has count 0 and percentage 0.
C30_BucketsPartitionRounds ==
    /\ \A id \in DOMAIN rows : Cardinality(BucketsOf(rows[id].crash_multiplier)) = 1
    /\ dist.at = "returned" =>
           LET counts == [k \in DOMAIN dist.buckets |-> dist.buckets[k].count]
               shares == [k \in DOMAIN dist.buckets |-> dist.buckets[k].percentage]
           IN  /\ Len(dist.buckets) = Len(DISTRIBUTION_BUCKETS)
               /\ IF rows = <<>>
                  THEN \A k \in DOMAIN dist.buckets :
                           counts[k] = 0 /\ shares[k] = 0
                  ELSE /\ SumSeq(counts) = Cardinality(DOMAIN rows)
                       /\ SumSeq(shares) = 100 * PctScale
====
